---- MODULE Spec2Model ----
(***************************************************************************)
(* IdentifyPrimAutomatic (pyCellProfiler): the module's variables and its  *)
(* Run method, which thresholds one image of the image set, labels the     *)
(* connected foreground regions and files the label map and the            *)
(* measurements; with a frame it also shows them in its window (Display).  *)
(*                                                                         *)
(* Intensities are reals in [0,1]; the model writes an intensity as its    *)
(* numerator over Scale = 2^MaxExp and draws pixel values from the powers  *)
(* of two 1, 2, ..., Scale, so that the logarithm Otsu's method takes is   *)
(* an integer.  Thresholds and threshold bounds are numerators over Scale  *)
(* as well.  A greyscale image is an array over the pixels, a colour image *)
(* an array over the pixels and the channels.                              *)
(***************************************************************************)
EXTENDS Integers, Sequences, FiniteSets, TLC

\* ------------------------------------------------------------------ bounds
H == 3
W == 3
MaxExp == 2
MaxSpots == 2

\* ------------------------------------------------- the module's constants
IMAGE_NAME_VAR == 1
OBJECT_NAME_VAR == 2
SIZE_RANGE_VAR == 3
EXCLUDE_SIZE_VAR == 4
MERGE_CHOICE_VAR == 5
EXCLUDE_BORDER_OBJECTS_VAR == 6
THRESHOLD_METHOD_VAR == 7
THRESHOLD_CORRECTION_VAR == 8
THRESHOLD_RANGE_VAR == 9
OBJECT_FRACTION_VAR == 10
UNCLUMP_METHOD_VAR == 11
WATERSHED_VAR == 12
LOW_RES_MAXIMA_VAR == 15
SAVE_OUTLINES_VAR == 16
FILL_HOLES_OPTION_VAR == 17
TEST_MODE_VAR == 18

\* VariableRevisionNumber(): the revision of the variables this module works with.
VariableRevisionNumber == 13

VARIABLES
    variable,      \* self.Variable(i).Value of the variables Run and the claims read
    image_set,     \* the image handed to Run in this cycle: [Image, Mask], or NoImage
    object_set,    \* name -> objects registered with AddObjects
    measurements,  \* <<object name, feature name>> -> data given to AddMeasurement
    pc,            \* "idle" before Run, "done" after it returned, "error" after it raised
    raised,        \* the exception Run raised, "none" otherwise
    my_frame,      \* what the module's window shows, NoWindow before the first Display
    variable_revision_number,  \* the revision the module's variables were written with
    ref            \* a remembered earlier invocation (inputs and outcome), or NoRef

vars == <<variable, image_set, object_set, measurements, pc, raised, my_frame,
          variable_revision_number, ref>>

\* --------------------------------------------------------------- the grid
Pixels == (0 .. H - 1) \X (0 .. W - 1)

RECURSIVE Pow2(_)
Pow2(e) == IF e <= 0 THEN 1 ELSE 2 * Pow2(e - 1)

RECURSIVE Log2(_)
Log2(v) == IF v <= 1 THEN 0 ELSE 1 + Log2(v \div 2)

Scale == Pow2(MaxExp)

\* Row-major (C order) position of a pixel, the order scipy scans an array in.
Index(p) == p[1] * W + p[2]

NoImage == [Image |-> << >>, Mask |-> << >>]
NoRef == [pc |-> "none"]
NoWindow == << >>
EmptyMap == << >>

\* ------------------------------------------------------ inputs of the model
\* Images: background at the lowest intensity, with at most n brighter pixels
\* ("spots") on the given sites, at the given levels (exponents of two).
SpotSets(sites, n) == {S \in SUBSET sites : Cardinality(S) <= n}

ImagesOn(sites, n, levels) ==
    UNION {{[p \in Pixels |-> IF p \in S THEN Pow2(lv[p]) ELSE 1] :
               lv \in [S -> levels]} : S \in SpotSets(sites, n)}

\* Masks: the valid pixels are the columns left of c1 (a crop), possibly none.
CropMask(c1) == [p \in Pixels |-> p[2] < c1]

Masks == {CropMask(c1) : c1 \in 0 .. W}

\* The two ends of the first row: the sites of the images of graded brightness.
GradedSites == {<<0, 0>>, <<0, W - 1>>}

GradedImages == ImagesOn(GradedSites, MaxSpots, 1 .. MaxExp)

\* Saturated spots anywhere, or graded spots on the graded sites.
Images == ImagesOn(Pixels, MaxSpots, {MaxExp}) \cup GradedImages

ImageSets == {[Image |-> i, Mask |-> m] : i \in Images, m \in Masks}

GradedImageSets == {[Image |-> i, Mask |-> m] : i \in GradedImages, m \in Masks}

\* For the runs that are compared: every pixel valid, the last column cropped
\* away, or no pixel valid.
HistoryImageSets ==
    {[Image |-> i, Mask |-> m] :
        i \in GradedImages, m \in {CropMask(W), CropMask(W - 1), CropMask(0)}}

\* Clumps: a square block of saturated pixels in the corner, a fragment of one
\* pixel touching it at a corner, and two saturated peaks joined by a dimmer
\* saddle pixel; brightness is an exponent of two for each bright pixel.
Block == {<<0, 0>>, <<0, 1>>, <<1, 0>>, <<1, 1>>}

Fragment == {<<2, 2>>}

Peaks == {<<0, 0>>, <<0, 2>>}

Saddle == {<<0, 1>>}

ClumpShapes ==
    {[p \in Block |-> MaxExp],
     [p \in Block \cup Fragment |-> MaxExp],
     [p \in Fragment |-> MaxExp],
     [p \in Peaks \cup Saddle |-> IF p \in Peaks THEN MaxExp ELSE MaxExp - 1]}

ClumpImageSets ==
    {[Image |-> [p \in Pixels |-> IF p \in DOMAIN lv THEN Pow2(lv[p]) ELSE 1],
      Mask |-> CropMask(W)] : lv \in ClumpShapes}

\* The channels of a colour image (the third axis of its array).
Channels == 0 .. 2

\* A colour of mean intensity v: grey at the lowest and at the highest level,
\* reddish in between.
Colour(v) ==
    IF v = 1 \/ v = Scale THEN <<v, v, v>> ELSE <<2 * v, v \div 2, v \div 2>>

\* The colour image whose channel means are the intensities of a greyscale one.
Coloured(grey) ==
    [q \in (0 .. H - 1) \X (0 .. W - 1) \X Channels |->
        Colour(grey[<<q[1], q[2]>>])[q[3] + 1]]

\* Colour images with at most one spot.
ColourImages == {Coloured(i) : i \in ImagesOn(GradedSites, 1, 1 .. MaxExp)}

\* For the runs that are displayed: graded images in greyscale and in colour,
\* every pixel valid.
DisplayImageSets ==
    {[Image |-> i, Mask |-> CropMask(W)] : i \in GradedImages \cup ColourImages}

\* ------------------------------------------------ the module's variables
VarIds == {IMAGE_NAME_VAR, OBJECT_NAME_VAR, SIZE_RANGE_VAR, EXCLUDE_SIZE_VAR,
           MERGE_CHOICE_VAR, EXCLUDE_BORDER_OBJECTS_VAR, THRESHOLD_METHOD_VAR,
           THRESHOLD_CORRECTION_VAR, THRESHOLD_RANGE_VAR, UNCLUMP_METHOD_VAR,
           WATERSHED_VAR}

\* The defaults of Annotations(); a "min,max" value is held as its two fields,
\* a threshold method ("Otsu Global") as its words.  The image name has no
\* default there.
DefaultValue(i) ==
    CASE i = OBJECT_NAME_VAR -> "Nuclei"
      [] i = SIZE_RANGE_VAR -> <<10, 40>>
      [] i = EXCLUDE_SIZE_VAR -> "Yes"
      [] i = MERGE_CHOICE_VAR -> "No"
      [] i = EXCLUDE_BORDER_OBJECTS_VAR -> "Yes"
      [] i = THRESHOLD_METHOD_VAR -> <<"Otsu", "Global">>
      [] i = THRESHOLD_CORRECTION_VAR -> 1
      [] i = THRESHOLD_RANGE_VAR -> <<0, Scale>>
      [] i = UNCLUMP_METHOD_VAR -> "Intensity"
      [] i = WATERSHED_VAR -> "Intensity"

\* The name the pipeline's image provider files the image under; the user
\* enters it as the module's image name, for which Annotations() has no default.
ImageName == "OrigBlue"

\* The variables of a module placed in a pipeline: the image name entered, the
\* other variables at their defaults.
InitialValue(i) == IF i = IMAGE_NAME_VAR THEN ImageName ELSE DefaultValue(i)

\* The values the variables are set to: for the segmentation runs, for the
\* threshold runs and for the runs that are compared with one another.
SegmentationValues(i) ==
    CASE i = EXCLUDE_BORDER_OBJECTS_VAR -> {"Yes", "No"}
      [] i = WATERSHED_VAR -> {"Intensity", "None"}
      [] i = THRESHOLD_RANGE_VAR -> {<<0, Scale>>, <<0, 1>>}
      [] OTHER -> {InitialValue(i)}

ThresholdValues(i) ==
    CASE i = SIZE_RANGE_VAR -> {<<10, 40>>, <<40, 10>>}
      [] i = THRESHOLD_METHOD_VAR -> {<<"Otsu", "Global">>, <<"Background", "Global">>}
      [] i = THRESHOLD_CORRECTION_VAR -> {-1, 1, 2, 3}
      [] i = THRESHOLD_RANGE_VAR -> {<<0, Scale>>, <<0, 1>>, <<Scale - 1, Scale>>}
      [] OTHER -> {InitialValue(i)}

HistoryValues(i) ==
    CASE i = THRESHOLD_CORRECTION_VAR -> {1, 2, 3}
      [] OTHER -> {InitialValue(i)}

FilterValues(i) ==
    CASE i = SIZE_RANGE_VAR -> {<<10, 40>>, <<2, 3>>}
      [] i = EXCLUDE_SIZE_VAR -> {"Yes", "No"}
      [] i = MERGE_CHOICE_VAR -> {"Yes", "No"}
      [] i = EXCLUDE_BORDER_OBJECTS_VAR -> {"Yes", "No"}
      [] OTHER -> {InitialValue(i)}

DisplayValues(i) ==
    CASE i = OBJECT_NAME_VAR -> {"Nuclei", "Cells"}
      [] OTHER -> {InitialValue(i)}

GetImageName(self) == self[IMAGE_NAME_VAR]
GetObjectName(self) == self[OBJECT_NAME_VAR]
GetMinSize(self) == self[SIZE_RANGE_VAR][1]
GetMaxSize(self) == self[SIZE_RANGE_VAR][2]
GetExcludeSize(self) == self[EXCLUDE_SIZE_VAR] = "Yes"
GetMergeObjects(self) == self[MERGE_CHOICE_VAR] = "Yes"
GetExcludeBorderObjects(self) == self[EXCLUDE_BORDER_OBJECTS_VAR] = "Yes"
GetThresholdMethod(self) == self[THRESHOLD_METHOD_VAR]
GetThresholdAlgorithm(self) == GetThresholdMethod(self)[1]
GetThresholdCorrectionFactor(self) == self[THRESHOLD_CORRECTION_VAR]
GetMinThreshold(self) == self[THRESHOLD_RANGE_VAR][1]
GetMaxThreshold(self) == self[THRESHOLD_RANGE_VAR][2]
GetUnclumpMethod(self) == self[UNCLUMP_METHOD_VAR]
GetWatershedMethod(self) == self[WATERSHED_VAR]

\* ------------------------------------------------- CellProfiler.Math.Otsu
RECURSIVE SumRange(_, _, _)
SumRange(f, a, b) == IF a > b THEN 0 ELSE f[a] + SumRange(f, a + 1, b)

\* Histogram of the log-transformed intensities.
Histogram(data) ==
    [e \in 0 .. MaxExp |-> Cardinality({p \in DOMAIN data : Log2(data[p]) = e})]

\* The split points: a split at k puts the levels below k in one class and the
\* levels from k up in the other; both classes are non-empty.
SplitPoints(h) == {k \in 1 .. MaxExp : h[k] > 0 /\ \E d \in 0 .. k - 1 : h[d] > 0}

\* Between-class variance of the split at k, as <<numerator, denominator>>
\* (the common factor 1/n^2 left out).
BetweenClassVariance(h, k) ==
    LET w == [e \in 0 .. MaxExp |-> e * h[e]]
        n0 == SumRange(h, 0, k - 1)
        n1 == SumRange(h, k, MaxExp)
        s0 == SumRange(w, 0, k - 1)
        s1 == SumRange(w, k, MaxExp)
    IN <<(s0 * n1 - s1 * n0) * (s0 * n1 - s1 * n0), n0 * n1>>

Greater(a, b) == a[1] * b[2] > b[1] * a[2]

\* A flat image has no split point: DegenerateImageError (spec.md, section 7).
OtsuFails(data) == SplitPoints(Histogram(data)) = {}

\* The threshold before clamping: the lowest split point of maximal
\* between-class variance, transformed back to an intensity.
OtsuRaw(data) ==
    LET h == Histogram(data)
        ks == SplitPoints(h)
        v == [k \in ks |-> BetweenClassVariance(h, k)]
        best == CHOOSE k \in ks :
                    /\ \A j \in ks : ~Greater(v[j], v[k])
                    /\ \A j \in ks : j < k => Greater(v[k], v[j])
    IN Pow2(best)

Clamp(x, lo, hi) == IF x < lo THEN lo ELSE IF x > hi THEN hi ELSE x

Otsu(data, min_threshold, max_threshold) ==
    Clamp(OtsuRaw(data), min_threshold, max_threshold)

\* ------------------------------------------------------ scipy.ndimage.label
Adjacent(p, q) ==
    \/ p[1] = q[1] /\ (p[2] = q[2] + 1 \/ q[2] = p[2] + 1)
    \/ p[2] = q[2] /\ (p[1] = q[1] + 1 \/ q[1] = p[1] + 1)

RECURSIVE Grow(_, _)
Grow(S, fg) ==
    LET T == S \cup {q \in fg : \E p \in S : Adjacent(p, q)}
    IN IF T = S THEN S ELSE Grow(T, fg)

First(S) == CHOOSE p \in S : \A q \in S : Index(p) <= Index(q)

\* The scan: the first foreground pixel not yet labelled starts region k, which
\* takes every pixel connected to it; lab maps the labelled pixels to their labels.
RECURSIVE Scan(_, _, _)
Scan(rest, k, lab) ==
    IF rest = {} THEN [labels |-> lab, count |-> k - 1]
    ELSE LET region == Grow({First(rest)}, rest)
         IN Scan(rest \ region, k + 1, [p \in region |-> k] @@ lab)

\* Labels with gaps: each region numbered by the scan position of its first pixel.
RECURSIVE ScanByPosition(_, _, _)
ScanByPosition(rest, k, lab) ==
    IF rest = {} THEN [labels |-> lab, count |-> k - 1]
    ELSE LET region == Grow({First(rest)}, rest)
         IN ScanByPosition(rest \ region, k + 1,
                           [p \in region |-> Index(First(rest)) + 1] @@ lab)

labelByPosition(binary_image) ==
    LET fg == {p \in Pixels : binary_image[p]}
        scan == ScanByPosition(fg, 1, << >>)
    IN [labeled_image |-> scan.labels @@ [p \in Pixels |-> 0],
        object_count |-> scan.count]

\* Labels of regions that also join across corners (a full structuring element).
RECURSIVE GrowAcrossCorners(_, _)
GrowAcrossCorners(S, fg) ==
    LET T == S \cup {q \in fg : \E p \in S :
                        p[1] - q[1] \in -1 .. 1 /\ p[2] - q[2] \in -1 .. 1}
    IN IF T = S THEN S ELSE GrowAcrossCorners(T, fg)

RECURSIVE ScanAcrossCorners(_, _, _)
ScanAcrossCorners(rest, k, lab) ==
    IF rest = {} THEN [labels |-> lab, count |-> k - 1]
    ELSE LET region == GrowAcrossCorners({First(rest)}, rest)
         IN ScanAcrossCorners(rest \ region, k + 1, [p \in region |-> k] @@ lab)

labelAcrossCorners(binary_image) ==
    LET fg == {p \in Pixels : binary_image[p]}
        scan == ScanAcrossCorners(fg, 1, << >>)
    IN [labeled_image |-> scan.labels @@ [p \in Pixels |-> 0],
        object_count |-> scan.count]

\* A count that is one too many (the background counted as a region).
labelCountingBackground(binary_image) ==
    LET fg == {p \in Pixels : binary_image[p]}
        scan == Scan(fg, 1, << >>)
    IN [labeled_image |-> scan.labels @@ [p \in Pixels |-> 0],
        object_count |-> scan.count + 1]

\* scipy.ndimage.label with the default structuring element: the regions of
\* edge-adjacent foreground pixels, numbered 1..n in the order the scan meets them.
label(binary_image) ==
    LET fg == {p \in Pixels : binary_image[p]}
        scan == Scan(fg, 1, << >>)
    IN [labeled_image |-> scan.labels @@ [p \in Pixels |-> 0],
        object_count |-> scan.count]

\* ------------------------------------------------ scipy.ndimage.center_of_mass
RECURSIVE SumAxis(_, _)
SumAxis(S, axis) ==
    IF S = {} THEN 0
    ELSE LET p == CHOOSE q \in S : TRUE IN p[axis] + SumAxis(S \ {p}, axis)

\* Center of mass of a uniform image over each label 1..object_count:
\* <<mean of the first-axis index, mean of the second-axis index>>, a mean
\* written as <<sum, number of pixels>>.
center_of_mass(labeled_image, object_count) ==
    [k \in 1 .. object_count |->
        LET S == {p \in Pixels : labeled_image[p] = k}
        IN <<(<<SumAxis(S, 1), Cardinality(S)>>), (<<SumAxis(S, 2), Cardinality(S)>>)>>]

\* ------------------------------------------ measurements and the object set
AddMeasurement(m, object_name, feature_name, data) ==
    (<<object_name, feature_name>> :> data) @@ m

AddObjects(os, objects, name) == (name :> objects) @@ os

\* A count filed without the object name.
CountFeatureBare(self) == "Count"

CountFeature(self) == "Count_" \o GetObjectName(self)
ThresholdFeature(self) == "Threshold_FinalThreshold_" \o GetObjectName(self)

\* ------------------------------------------------------------------- Run
\* A threshold taken over from an upstream module's measurement when there is one.
thresholdReused(self, img) ==
    IF <<"Image", "Threshold_FinalThreshold_Other">> \in DOMAIN measurements
    THEN measurements[<<"Image", "Threshold_FinalThreshold_Other">>][1]
    ELSE Otsu(img, GetMinThreshold(self), GetMaxThreshold(self))

\* A threshold divided by the correction factor.
thresholdDivided(self, img) ==
    LET t == Otsu(img, GetMinThreshold(self), GetMaxThreshold(self))
        c == GetThresholdCorrectionFactor(self)
    IN IF c > 0 THEN t \div c ELSE t

\* threshold = Otsu(img, self.MinThreshold, self.MaxThreshold)
threshold(self, img) == Otsu(img, GetMinThreshold(self), GetMaxThreshold(self))

\* A foreground of the pixels strictly above the threshold.
binaryImageAbove(img, t, mask) == [p \in Pixels |-> img[p] > t /\ mask[p]]

\* A foreground that forgets the mask.
binaryImageUnmasked(img, t, mask) == [p \in Pixels |-> img[p] >= t]

\* binary_image = logical_and(img >= threshold, mask)
binary_image(img, t, mask) == [p \in Pixels |-> img[p] >= t /\ mask[p]]

\* len(img.shape), img.ndim: 2 for an array over the pixels, 3 for an array over
\* the pixels and the channels.
ndim(img) == IF DOMAIN img = Pixels THEN 2 ELSE 3

\* numpy.sum(img,2)/img.shape[2]: the mean of the channels at each pixel; the
\* channel sums of the model's colour images are multiples of the channel count.
grayscale(img) ==
    LET channels == {q[3] : q \in DOMAIN img}
        plane(p) == [ch \in channels |-> img[<<p[1], p[2], ch>>]]
    IN [p \in Pixels |->
           SumRange(plane(p), 0, Cardinality(channels) - 1) \div Cardinality(channels)]

\* outline_image: the background pixels next to an object (binary_dilation with
\* its default structuring element, less the objects themselves).
outline_image(labeled_image) ==
    [p \in Pixels |->
        /\ labeled_image[p] = 0
        /\ \E q \in Pixels : labeled_image[q] # 0 /\ Adjacent(p, q)]

\* A Display that paints the outlines onto the image's own array.
DisplayInPlace(window, image, labeled_image, outline) ==
    LET painted ==
            IF ndim(image.Image) = 2
            THEN [p \in Pixels |-> IF outline[p] THEN Scale ELSE image.Image[p]]
            ELSE [q \in DOMAIN image.Image |->
                     IF outline[<<q[1], q[2]>>]
                     THEN (IF q[3] = 2 THEN 0 ELSE Scale)
                     ELSE image.Image[q]]
        outline_img ==
            IF ndim(painted) = 2
            THEN [p \in Pixels |-> <<painted[p], painted[p], painted[p]>>]
            ELSE [p \in Pixels |-> [ch \in 1 .. 3 |-> painted[<<p[1], p[2], ch - 1>>]]]
    IN [my_frame |-> [OrigAxes |-> painted,
                      LabelAxes |-> labeled_image,
                      OutlinedAxes |-> [p \in Pixels |->
                          IF outline[p] THEN <<Scale, Scale, 0>> ELSE outline_img[p]]],
        image |-> [image EXCEPT !.Image = painted]]

\* Display: the window shows the image, the labels and an RGB copy of the image
\* with the outlines painted yellow; a greyscale image is copied into the three
\* planes, a colour image is copied as it is.  The result is the window and the
\* image as Display leaves it.
Display(window, image, labeled_image, outline) ==
    LET outline_img ==
            IF ndim(image.Image) = 2
            THEN [p \in Pixels |-> <<image.Image[p], image.Image[p], image.Image[p]>>]
            ELSE [p \in Pixels |->
                     [ch \in 1 .. 3 |-> image.Image[<<p[1], p[2], ch - 1>>]]]
    IN [my_frame |-> [OrigAxes |-> image.Image,
                      LabelAxes |-> labeled_image,
                      OutlinedAxes |-> [p \in Pixels |->
                          IF outline[p] THEN <<Scale, Scale, 0>> ELSE outline_img[p]]],
        image |-> image]

\* Run(pipeline, image_set, object_set, measurements, frame): image is what
\* image_set.GetImage hands over, frame tells whether a frame is supplied;
\* image_set' is the image as Run leaves it.
Run(image, frame) ==
    /\ pc = "idle"
    /\ UNCHANGED <<variable, variable_revision_number, ref>>
    /\ LET img == IF ndim(image.Image) = 3 THEN grayscale(image.Image)
                  ELSE image.Image
           mask == image.Mask
       IN IF OtsuFails(img)
          THEN /\ pc' = "error"
               /\ raised' = "DegenerateImageError"
               /\ image_set' = image
               /\ UNCHANGED <<object_set, measurements, my_frame>>
          ELSE LET t == threshold(variable, img)
                   lab == label(binary_image(img, t, mask))
                   labeled_image == lab.labeled_image
                   object_count == lab.object_count
                   shown == Display(my_frame, image, labeled_image,
                                    outline_image(labeled_image))
                   centers == center_of_mass(labeled_image, object_count)
                   location_center_x == [k \in 1 .. object_count |-> centers[k][1]]
                   location_center_y == [k \in 1 .. object_count |-> centers[k][2]]
                   m1 == AddMeasurement(measurements, "Image",
                                        CountFeature(variable), <<object_count>>)
                   m2 == AddMeasurement(m1, "Image", ThresholdFeature(variable), <<t>>)
                   m3 == AddMeasurement(m2, GetObjectName(variable),
                                        "Location_Center_X", location_center_x)
                   m4 == AddMeasurement(m3, GetObjectName(variable),
                                        "Location_Center_Y", location_center_y)
               IN /\ image_set' = IF frame THEN shown.image ELSE image
                  /\ measurements' = m4
                  /\ object_set' = AddObjects(object_set, [Segmented |-> labeled_image],
                                              GetObjectName(variable))
                  /\ my_frame' = IF frame THEN shown.my_frame ELSE my_frame
                  /\ pc' = "done"
                  /\ raised' = "none"

\* ------------------------------------------------------- the environment
\* A variable is given a value, from the pipeline file or the settings editor,
\* while no cycle is under way.
SetVariable(i, v) ==
    /\ pc = "idle"
    /\ object_set = EmptyMap
    /\ variable[i] # v
    /\ variable' = [variable EXCEPT ![i] = v]
    /\ UNCHANGED <<image_set, object_set, measurements, pc, raised, my_frame,
                   variable_revision_number, ref>>

\* The pipeline moves to the next image set: fresh object set and measurements.
NextImageSet ==
    /\ pc # "idle"
    /\ pc' = "idle"
    /\ raised' = "none"
    /\ image_set' = NoImage
    /\ object_set' = EmptyMap
    /\ measurements' = EmptyMap
    /\ UNCHANGED <<variable, my_frame, variable_revision_number, ref>>

\* An upstream module of the pipeline has filed its own objects and measurements
\* before this module runs.
PriorModule ==
    /\ pc = "idle"
    /\ object_set = EmptyMap
    /\ object_set' = AddObjects(object_set, [Segmented |-> [p \in Pixels |-> 0]], "Other")
    /\ measurements' =
          AddMeasurement(AddMeasurement(measurements, "Image", "Count_Other", <<0>>),
                         "Image", "Threshold_FinalThreshold_Other", <<Scale>>)
    /\ UNCHANGED <<variable, image_set, pc, raised, my_frame, variable_revision_number, ref>>

\* What the invocation produced: its outcome, label map and measurements.
Produced ==
    IF pc = "done"
    THEN [raised |-> raised,
          Segmented |-> object_set[GetObjectName(variable)].Segmented,
          Count |-> measurements[<<"Image", CountFeature(variable)>>],
          Threshold |-> measurements[<<"Image", ThresholdFeature(variable)>>],
          X |-> measurements[<<GetObjectName(variable), "Location_Center_X">>],
          Y |-> measurements[<<GetObjectName(variable), "Location_Center_Y">>]]
    ELSE [raised |-> raised]

\* The finished invocation is remembered, to compare later invocations with.
Remember ==
    /\ pc \in {"done", "error"}
    /\ ref' = [pc |-> pc, variable |-> variable, image_set |-> image_set,
               upstream |-> DOMAIN object_set \ {GetObjectName(variable)},
               produced |-> Produced]
    /\ ref' # ref
    /\ UNCHANGED <<variable, image_set, object_set, measurements, pc, raised, my_frame,
                   variable_revision_number>>

\* ------------------------------------------------ loading and upgrading
\* The revisions a pipeline file may carry: older, the one before the current,
\* the current and a newer one.
Revisions == VariableRevisionNumber - 2 .. VariableRevisionNumber + 1

\* A file of the revision before the current one has one variable more (the
\* Laplace values, which the current revision dropped).
NumVariables(revision) ==
    IF revision = VariableRevisionNumber - 1 THEN TEST_MODE_VAR + 1 ELSE TEST_MODE_VAR

\* The values a file gives the variables.
LoadedValues(i) ==
    CASE i \in VarIds -> {InitialValue(i)}
      [] i = OBJECT_FRACTION_VAR -> {"0.01"}
      [] i = LOW_RES_MAXIMA_VAR -> {"Yes", "No"}
      [] i >= SAVE_OUTLINES_VAR -> {"Do not use", "Yes", "No"}
      [] OTHER -> {"Automatic"}

\* The settings of a file of the given revision: variable number -> value.
LoadedSettings(revision) ==
    LET n == NumVariables(revision)
        varied == LOW_RES_MAXIMA_VAR .. n
        tails == {t \in [varied -> UNION {LoadedValues(i) : i \in varied}] :
                     \A i \in varied : t[i] \in LoadedValues(i)}
    IN {[i \in 1 .. n |->
            IF i \in varied THEN t[i] ELSE CHOOSE v \in LoadedValues(i) : TRUE] :
        t \in tails}

\* The pipeline loader hands the module the variables and the revision number
\* of a file.
LoadSettings(revision, values) ==
    /\ pc = "idle"
    /\ object_set = EmptyMap
    /\ variable' = values
    /\ variable_revision_number' = revision
    /\ pc' = "loaded"
    /\ UNCHANGED <<image_set, object_set, measurements, raised, my_frame, ref>>

\* for i in range(first, last + 1): Variable(i-1).Value = Variable(i).Value
RECURSIVE Propagate(_, _, _)
Propagate(self, i, last) ==
    IF i > last THEN self
    ELSE Propagate([self EXCEPT ![i - 1] = self[i]], i + 1, last)

\* A loop that stops one variable short.
UpgradedVariablesShort(self) == Propagate(self, 17, 18)

\* Laplace values removed: for i in range(17,20) the value of variable i goes
\* to variable i-1.
UpgradedVariables(self) == Propagate(self, 17, 19)

\* UpgradeModuleFromRevision(variable_revision_number), called by the loader
\* with the revision of the file.
UpgradeModuleFromRevision ==
    /\ pc = "loaded"
    /\ LET rewritten == variable_revision_number = 12
           revision == IF rewritten THEN 13 ELSE variable_revision_number
       IN /\ variable' = IF rewritten THEN UpgradedVariables(variable) ELSE variable
          /\ IF revision # VariableRevisionNumber
             THEN pc' = "error" /\ raised' = "ValueError"
             ELSE pc' = "upgraded" /\ raised' = "none"
    /\ UNCHANGED <<image_set, object_set, measurements, my_frame,
                   variable_revision_number, ref>>

\* ---------------------------------------------------------- specifications
Init ==
    /\ variable = [i \in VarIds |-> InitialValue(i)]
    /\ image_set = NoImage
    /\ object_set = EmptyMap
    /\ measurements = EmptyMap
    /\ pc = "idle"
    /\ raised = "none"
    /\ my_frame = NoWindow
    /\ variable_revision_number = VariableRevisionNumber
    /\ ref = NoRef

\* Segmentation runs: saturated and graded images, every crop, the settings of
\* the segmentation.
Configure == \E i \in VarIds : \E v \in SegmentationValues(i) : SetVariable(i, v)

RunModule == \E image \in ImageSets : Run(image, FALSE)

Next ==
    \/ Configure
    \/ RunModule
    \/ NextImageSet

Spec == Init /\ [][Next]_vars

\* Threshold runs: graded images, the settings of the threshold.
ConfigureThreshold == \E i \in VarIds : \E v \in ThresholdValues(i) : SetVariable(i, v)

RunGraded == \E image \in GradedImageSets : Run(image, FALSE)

NextThreshold ==
    \/ ConfigureThreshold
    \/ RunGraded
    \/ NextImageSet

SpecThreshold == Init /\ [][NextThreshold]_vars

\* Compared runs: graded images, the correction factor, an upstream module, and
\* one remembered invocation.
ConfigureFactor == \E i \in VarIds : \E v \in HistoryValues(i) : SetVariable(i, v)

RunCompared == \E image \in HistoryImageSets : Run(image, FALSE)

NextHistory ==
    \/ ConfigureFactor
    \/ RunCompared
    \/ NextImageSet
    \/ PriorModule
    \/ Remember

SpecHistory == Init /\ [][NextHistory]_vars

\* Filter runs: clumps, the settings of the object filter, and one remembered
\* invocation.
ConfigureFilter == \E i \in VarIds : \E v \in FilterValues(i) : SetVariable(i, v)

RunClump == \E image \in ClumpImageSets : Run(image, FALSE)

NextFilter ==
    \/ ConfigureFilter
    \/ RunClump
    \/ NextImageSet
    \/ Remember

SpecFilter == Init /\ [][NextFilter]_vars

\* Displayed runs: graded images, the object name, an upstream module, and Run
\* with and without a frame.
ConfigureName == \E i \in VarIds : \E v \in DisplayValues(i) : SetVariable(i, v)

RunDisplayed == \E image \in DisplayImageSets : \E frame \in BOOLEAN : Run(image, frame)

NextDisplay ==
    \/ ConfigureName
    \/ RunDisplayed
    \/ NextImageSet
    \/ PriorModule

SpecDisplay == Init /\ [][NextDisplay]_vars

\* Loaded modules: the settings of a file of some revision, then the upgrade.
Load ==
    \E revision \in Revisions :
        \E values \in LoadedSettings(revision) :
            LoadSettings(revision, values)

NextUpgrade ==
    \/ Load
    \/ UpgradeModuleFromRevision

SpecUpgrade == Init /\ [][NextUpgrade]_vars

\* The intensities Run thresholds: the array itself for a greyscale image, the
\* channel means for a colour image.
IntensityOf(array) == IF ndim(array) = 3 THEN grayscale(array) ELSE array

\* The intensities of the image handed to Run in this cycle.
Intensity == IntensityOf(image_set.Image)

\* ===================================================================== claims
Segmented == object_set[GetObjectName(variable)].Segmented
Count == measurements[<<"Image", CountFeature(variable)>>][1]
FinalThreshold == measurements[<<"Image", ThresholdFeature(variable)>>][1]
Upstream == DOMAIN object_set \ {GetObjectName(variable)}

Border == {p \in Pixels : p[1] = 0 \/ p[2] = 0 \/ p[1] = H - 1 \/ p[2] = W - 1}

\* The configuration is in range: size range not inverted, threshold bounds
\* within [0,1], correction factor not negative.
ValidConfiguration(self) ==
    /\ GetMinSize(self) <= GetMaxSize(self)
    /\ 0 <= GetMinThreshold(self) /\ GetMinThreshold(self) <= Scale
    /\ 0 <= GetMaxThreshold(self) /\ GetMaxThreshold(self) <= Scale
    /\ GetThresholdCorrectionFactor(self) >= 0

NothingProduced ==
    /\ GetObjectName(variable) \notin DOMAIN object_set
    /\ \A k \in DOMAIN measurements : k[2] \in {"Count_Other", "Threshold_FinalThreshold_Other"}

\* C1: after every completed Run the nonzero values of the registered label map
\* are exactly 1..N, N the recorded object count.
C1_LabelsAreOneToCount ==
    pc = "done" => {Segmented[p] : p \in Pixels} \ {0} = 1 .. Count

C1_Witness == pc = "done" /\ Count >= 2

\* C2: every pixel whose mask value is false has label 0 in the label map.
C2_MaskedPixelsUnlabelled ==
    pc = "done" => \A p \in Pixels : ~image_set.Mask[p] => Segmented[p] = 0

C2_Witness ==
    /\ pc = "done"
    /\ Count >= 1
    /\ \E p \in Pixels : ~image_set.Mask[p] /\ Intensity[p] >= FinalThreshold

\* C3: an invocation with the same image, mask and configuration as a remembered
\* one has the same outcome, label map and measurements, whatever ran in between
\* and whatever an upstream module filed before it.
C3_SameInputsSameOutput ==
    (/\ ref.pc # "none"
     /\ pc \in {"done", "error"}
     /\ ref.variable = variable
     /\ ref.image_set = image_set) => ref.produced = Produced

C3_Witness ==
    /\ ref.pc = "done"
    /\ pc = "done"
    /\ ref.variable = variable
    /\ ref.image_set = image_set
    /\ ref.upstream # Upstream
    /\ Count >= 1

SomePixelValid == \E p \in Pixels : image_set.Mask[p]

\* C4: the final threshold is the raw threshold times the correction factor,
\* clamped into the threshold bounds (stated for configurations in range and masks
\* with a valid pixel).
C4_ThresholdIsCorrected ==
    (pc = "done" /\ ValidConfiguration(variable) /\ SomePixelValid) =>
        FinalThreshold = Clamp(OtsuRaw(Intensity) * GetThresholdCorrectionFactor(variable),
                               GetMinThreshold(variable), GetMaxThreshold(variable))

\* C5: a corrected threshold outside the bounds is reported as the nearest bound,
\* and the reported threshold lies within the bounds (stated for configurations in
\* range and masks with a valid pixel).
C5_ClampedToNearestBound ==
    (pc = "done" /\ ValidConfiguration(variable) /\ SomePixelValid) =>
        LET x == OtsuRaw(Intensity) * GetThresholdCorrectionFactor(variable)
            lo == GetMinThreshold(variable)
            hi == GetMaxThreshold(variable)
        IN /\ x < lo => FinalThreshold = lo
           /\ x > hi => FinalThreshold = hi
           /\ lo <= FinalThreshold /\ FinalThreshold <= hi

\* C6: for the same image, mask, algorithm and bounds, a correction factor that is
\* not smaller gives a threshold that is not smaller.
SameButFactor(v1, v2) ==
    \A i \in VarIds : i # THRESHOLD_CORRECTION_VAR => v1[i] = v2[i]

C6_ThresholdMonotone ==
    (/\ ref.pc = "done"
     /\ pc = "done"
     /\ ref.image_set = image_set
     /\ SameButFactor(ref.variable, variable)
     /\ GetThresholdCorrectionFactor(ref.variable) <= GetThresholdCorrectionFactor(variable))
    => ref.produced.Threshold[1] <= FinalThreshold

C6_Witness ==
    /\ ref.pc = "done"
    /\ pc = "done"
    /\ ref.image_set = image_set
    /\ SameButFactor(ref.variable, variable)
    /\ GetThresholdCorrectionFactor(ref.variable) < GetThresholdCorrectionFactor(variable)

\* C7: two invocations with the same mask and configuration whose images agree on
\* every valid pixel compute the same threshold and the same label map (stated for
\* masks with a valid pixel; C8 is the case of none).
C7_MaskedPixelsIgnored ==
    (/\ ref.pc = "done"
     /\ pc = "done"
     /\ ref.variable = variable
     /\ ref.image_set.Mask = image_set.Mask
     /\ SomePixelValid
     /\ \A p \in Pixels :
           image_set.Mask[p] => IntensityOf(ref.image_set.Image)[p] = Intensity[p])
    => /\ ref.produced.Threshold[1] = FinalThreshold
       /\ ref.produced.Segmented = Segmented

\* C8: when the mask selects no pixel, Run fails with DegenerateImageError and
\* neither a label map nor a measurement is filed.
C8_NoValidPixelFails ==
    (pc # "idle" /\ \A p \in Pixels : ~image_set.Mask[p]) =>
        /\ raised = "DegenerateImageError"
        /\ NothingProduced

\* C9: with a configuration out of range, Run raises InvalidConfigurationError
\* and neither a label map nor a measurement is filed (stated for images that
\* are not flat, where no other error is in play).
C9_InvalidConfigurationRejected ==
    (pc # "idle" /\ ~ValidConfiguration(variable) /\ ~OtsuFails(Intensity)) =>
        /\ raised = "InvalidConfigurationError"
        /\ NothingProduced

\* C10: with exclude_border set no object of the final label map has a pixel on
\* the border, and of one interior object and one object on the border only the
\* interior one is counted.
C10_BorderObjectsExcluded ==
    (pc = "done" /\ GetExcludeBorderObjects(variable)) =>
        LET found == label(binary_image(Intensity, FinalThreshold, image_set.Mask))
            regions == {{p \in Pixels : found.labeled_image[p] = k} :
                           k \in 1 .. found.object_count}
        IN /\ \A p \in Border : Segmented[p] = 0
           /\ (/\ Cardinality(regions) = 2
               /\ Cardinality({r \in regions : r \cap Border # {}}) = 1)
              => Count = 1

\* The pixels of the final label map that carry label k.
Region(k) == {p \in Pixels : Segmented[p] = k}

Labels == {Segmented[p] : p \in Pixels} \ {0}

\* The equivalent diameter of a region of the given area, 2 * sqrt(area / pi),
\* lies within [lo, hi]: pi * lo^2 <= 4 * area <= pi * hi^2, with pi taken as
\* 355/113 (exact for integer diameters below 180).
InSizeRange(area, lo, hi) ==
    /\ 355 * lo * lo <= 452 * area
    /\ 452 * area < 355 * hi * hi

\* C11: with exclude_by_size set every object of the final label map has an
\* equivalent diameter within [min_size, max_size].
C11_ObjectsWithinSizeRange ==
    (pc = "done" /\ GetExcludeSize(variable)) =>
        \A k \in Labels :
            InSizeRange(Cardinality(Region(k)), GetMinSize(variable), GetMaxSize(variable))

\* The regions of the foreground under the recorded threshold, before any
\* filtering: the fragments the object filter starts from.
FoundRegions ==
    LET found == label(binary_image(Intensity, FinalThreshold, image_set.Mask))
    IN {{p \in Pixels : found.labeled_image[p] = k} : k \in 1 .. found.object_count}

\* The equivalent diameter of a region of the given area is below lo.
TooSmall(area, lo) == 355 * lo * lo > 452 * area

\* Two regions touch: a pixel of one is among the eight neighbours of a pixel
\* of the other.  (Regions of edge-connected pixels never share an edge.)
Touching(r1, r2) ==
    \E p \in r1 : \E q \in r2 :
        /\ p # q
        /\ p[1] - q[1] \in -1 .. 1
        /\ p[2] - q[2] \in -1 .. 1

\* A region the object filter keeps: within the size range and, with
\* exclude_border set, off the border.
Survives(r) ==
    /\ InSizeRange(Cardinality(r), GetMinSize(variable), GetMaxSize(variable))
    /\ GetExcludeBorderObjects(variable) => r \cap Border = {}

SameButMerge(v1, v2) == \A i \in VarIds : i # MERGE_CHOICE_VAR => v1[i] = v2[i]

\* C12: with exclude_by_size and merge_small set, a too-small fragment touching
\* exactly one surviving object carries that object's label in the final label
\* map, and the count is one less than that of the same run with merge_small
\* not set.
C12_SmallFragmentMerged ==
    (pc = "done" /\ GetExcludeSize(variable) /\ GetMergeObjects(variable)) =>
        \A f \in FoundRegions : \A g \in FoundRegions :
            (/\ TooSmall(Cardinality(f), GetMinSize(variable))
             /\ Survives(g)
             /\ Touching(f, g)
             /\ \A h \in FoundRegions : (Survives(h) /\ Touching(f, h)) => h = g)
            => /\ \A p \in f : \A q \in g : Segmented[p] = Segmented[q] /\ Segmented[q] # 0
               /\ (/\ ref.pc = "done"
                   /\ ref.image_set = image_set
                   /\ SameButMerge(ref.variable, variable)
                   /\ ~GetMergeObjects(ref.variable))
                  => Count = ref.produced.Count[1] - 1

\* The intensity peaks of a region: the pixels brighter than every pixel of the
\* region that touches them.
IntensityPeaks(r) ==
    {p \in r : \A q \in r : Touching({p}, {q}) => Intensity[q] < Intensity[p]}

\* C13: with declump method Intensity and watershed method Intensity, a single
\* connected foreground blob with two intensity peaks joined through a dimmer
\* saddle above the threshold gives exactly two labels, one for each peak
\* (stated for runs that exclude no object by size or border).
C13_TwoPeaksTwoLabels ==
    (/\ pc = "done"
     /\ GetUnclumpMethod(variable) = "Intensity"
     /\ GetWatershedMethod(variable) = "Intensity"
     /\ ~GetExcludeSize(variable)
     /\ ~GetExcludeBorderObjects(variable))
    => \A r \in FoundRegions :
           (FoundRegions = {r} /\ Cardinality(IntensityPeaks(r)) = 2) =>
               /\ Count = 2
               /\ \A p \in IntensityPeaks(r) : Segmented[p] # 0
               /\ \A p \in IntensityPeaks(r) : \A q \in IntensityPeaks(r) :
                      p # q => Segmented[p] # Segmented[q]

\* The measurements an upstream module filed.
UpstreamKeys == {<<"Image", "Count_Other">>, <<"Image", "Threshold_FinalThreshold_Other">>}

\* C14 as stated: a completed Run files its measurements under exactly the keys
\* image-level Count and Threshold_FinalThreshold and object-level
\* Location_Center_X and Location_Center_Y.
C14_KeysAsStated ==
    pc = "done" =>
        DOMAIN measurements \ UpstreamKeys =
            {<<"Image", "Count">>,
             <<"Image", "Threshold_FinalThreshold">>,
             <<GetObjectName(variable), "Location_Center_X">>,
             <<GetObjectName(variable), "Location_Center_Y">>}

\* C14, amended: a completed Run files its measurements under exactly the keys
\* image-level Count_<ObjectName> and Threshold_FinalThreshold_<ObjectName> and
\* object-level Location_Center_X and Location_Center_Y under the object name.
C14_KeysCarryObjectName ==
    pc = "done" =>
        DOMAIN measurements \ UpstreamKeys =
            {<<"Image", "Count_" \o GetObjectName(variable)>>,
             <<"Image", "Threshold_FinalThreshold_" \o GetObjectName(variable)>>,
             <<GetObjectName(variable), "Location_Center_X">>,
             <<GetObjectName(variable), "Location_Center_Y">>}

C14_Witness ==
    /\ pc = "done"
    /\ GetObjectName(variable) = "Cells"
    /\ <<"Image", "Count_Cells">> \in DOMAIN measurements
    /\ UpstreamKeys \subseteq DOMAIN measurements

\* The label map of the foreground under the recorded threshold, before any
\* filtering.
RawLabelMap ==
    label(binary_image(Intensity, FinalThreshold, image_set.Mask)).labeled_image

\* C15: a completed Run makes the unedited label map, equal to the raw result
\* before filtering, available under the name UneditedSegmented<ObjectName>
\* (as objects of that name or as that field of the registered objects);
\* stated for masks with a valid pixel.
C15_UneditedLabelMapProduced ==
    (pc = "done" /\ SomePixelValid) =>
        LET name == GetObjectName(variable)
            unedited == "UneditedSegmented" \o name
        IN \/ /\ unedited \in DOMAIN object_set
              /\ object_set[unedited].Segmented = RawLabelMap
           \/ /\ name \in DOMAIN object_set
              /\ "UneditedSegmented" \in DOMAIN object_set[name]
              /\ object_set[name].UneditedSegmented = RawLabelMap

\* C16: a Run, with a frame and so with Display or without, leaves the image's
\* intensity array, its mask and every variable as they were handed to it.
C16_InputsReadOnly ==
    [][\A image \in DisplayImageSets : \A frame \in BOOLEAN :
          Run(image, frame) => (image_set' = image /\ variable' = variable)]_vars

\* Display has painted an outline into the window's copy of a colour image,
\* next to an object pixel that kept its colour.
C16_Witness ==
    /\ pc = "done"
    /\ my_frame # NoWindow
    /\ ndim(image_set.Image) = 3
    /\ my_frame.OrigAxes = image_set.Image
    /\ \E p \in Pixels :
          /\ my_frame.OutlinedAxes[p] = <<Scale, Scale, 0>>
          /\ image_set.Image[<<p[1], p[2], 2>>] # 0
    /\ \E p \in Pixels :
          /\ my_frame.LabelAxes[p] # 0
          /\ my_frame.OutlinedAxes[p][1] # my_frame.OutlinedAxes[p][2]

\* The Background method: the pixels below 0.95 and the most frequent intensities
\* among them.
Unsaturated(data) == {p \in DOMAIN data : 100 * data[p] < 95 * Scale}

Frequency(data, v) == Cardinality({p \in Unsaturated(data) : data[p] = v})

Modes(data) ==
    LET values == {data[p] : p \in Unsaturated(data)}
    IN {v \in values : \A u \in values : Frequency(data, u) <= Frequency(data, v)}

\* C17: with the Background algorithm selected the threshold is twice the mode
\* of the intensities below 0.95 (stated for correction factor 1, a configuration
\* in range, every pixel valid and a single mode; the recorded threshold is the
\* raw one clamped into the bounds).
C17_BackgroundAlgorithmUsed ==
    (/\ pc = "done"
     /\ GetThresholdAlgorithm(variable) = "Background"
     /\ GetThresholdCorrectionFactor(variable) = 1
     /\ ValidConfiguration(variable)
     /\ \A p \in Pixels : image_set.Mask[p]
     /\ Cardinality(Modes(Intensity)) = 1)
    => \A v \in Modes(Intensity) :
           FinalThreshold = Clamp(2 * v, GetMinThreshold(variable), GetMaxThreshold(variable))

\* The foreground under the recorded threshold.
Foreground == {p \in Pixels : image_set.Mask[p] /\ Intensity[p] >= FinalThreshold}

\* The pixels of fg joined to a pixel of S by a path of edge-adjacent pixels of fg.
RECURSIVE Reachable(_, _)
Reachable(S, fg) ==
    LET T == S \cup {q \in fg : \E p \in S :
                        (p[1] - q[1]) * (p[1] - q[1]) + (p[2] - q[2]) * (p[2] - q[2]) = 1}
    IN IF T = S THEN S ELSE Reachable(T, fg)

\* C18: with watershed method None two foreground pixels carry the same label
\* if and only if a path of edge-adjacent foreground pixels joins them, and the
\* labelled pixels are the foreground.
C18_ConnectedComponents ==
    (pc = "done" /\ GetWatershedMethod(variable) = "None") =>
        /\ \A p \in Pixels : Segmented[p] # 0 <=> p \in Foreground
        /\ \A p \in Foreground :
               {q \in Foreground : Segmented[q] = Segmented[p]} = Reachable({p}, Foreground)

\* Two objects that touch at a corner only.
C18_Witness ==
    /\ pc = "done"
    /\ GetWatershedMethod(variable) = "None"
    /\ \E p \in Foreground : \E q \in Foreground :
          /\ q[1] = p[1] + 1
          /\ q[2] = p[2] + 1
          /\ Segmented[p] # Segmented[q]

\* C19: the recorded threshold is the one used: a pixel of the label map is
\* labelled if and only if it is valid and its intensity is at least the
\* threshold recorded as Threshold_FinalThreshold.
C19_RecordedThresholdUsed ==
    pc = "done" =>
        \A p \in Pixels :
            Segmented[p] # 0 <=>
                (image_set.Mask[p] /\ Intensity[p] >= FinalThreshold)

\* Valid pixels at the threshold, below it and above it.
C19_Witness ==
    /\ pc = "done"
    /\ \E p \in Pixels :
          image_set.Mask[p] /\ Intensity[p] = FinalThreshold /\ Segmented[p] # 0
    /\ \E p \in Pixels : image_set.Mask[p] /\ Intensity[p] < FinalThreshold
    /\ \E p \in Pixels : image_set.Mask[p] /\ Intensity[p] > FinalThreshold

LocationCenterX == measurements[<<GetObjectName(variable), "Location_Center_X">>]
LocationCenterY == measurements[<<GetObjectName(variable), "Location_Center_Y">>]

\* C20: after a completed Run the recorded count is the number of distinct
\* nonzero labels of the registered label map, Location_Center_X and
\* Location_Center_Y have exactly one entry for each label 1..Count, entry k
\* being the center of the pixels labelled k (whichever axis comes first), and
\* the only error of a Run is that of a flat image: a Run that finds no object
\* completes with both vectors empty.
C20_MeasurementsConsistent ==
    /\ pc = "done" =>
          /\ Count = Cardinality(Labels)
          /\ DOMAIN LocationCenterX = 1 .. Count
          /\ DOMAIN LocationCenterY = 1 .. Count
          /\ \A k \in 1 .. Count :
                {LocationCenterX[k], LocationCenterY[k]} =
                    {<<SumAxis(Region(k), 1), Cardinality(Region(k))>>,
                     <<SumAxis(Region(k), 2), Cardinality(Region(k))>>}
          /\ Count = 0 => (LocationCenterX = << >> /\ LocationCenterY = << >>)
    /\ pc = "error" => OtsuFails(Intensity)

\* A completed Run that found no object although some pixel is valid.
C20_Witness ==
    /\ pc = "done"
    /\ raised = "none"
    /\ SomePixelValid
    /\ Count = 0
    /\ Labels = {}
    /\ LocationCenterX = << >>

\* C21: for every label k in 1..Count, Location_Center_X[k] is the mean column
\* (second-axis) index and Location_Center_Y[k] the mean row (first-axis) index
\* of the pixels labelled k; a mean is held as <<sum, number of pixels>>.
C21_CenterXIsColumnMean ==
    pc = "done" =>
        \A k \in 1 .. Count :
            /\ LocationCenterX[k] = <<SumAxis(Region(k), 2), Cardinality(Region(k))>>
            /\ LocationCenterY[k] = <<SumAxis(Region(k), 1), Cardinality(Region(k))>>

\* C22: UpgradeModuleFromRevision called with revision 12 gives variables 16,
\* 17, 18 the values variables 17, 18, 19 had before the call, leaves variables
\* 1..15 as they were and returns; with revision 13 it changes nothing and
\* returns; with any other revision it raises ValueError and leaves every
\* variable as it was.
C22_UpgradeFromRevision ==
    [][UpgradeModuleFromRevision =>
          /\ variable_revision_number = 12 =>
                /\ pc' = "upgraded" /\ raised' = "none"
                /\ \A i \in 16 .. 18 : variable'[i] = variable[i + 1]
                /\ \A i \in 1 .. 15 : variable'[i] = variable[i]
          /\ variable_revision_number = 13 =>
                /\ pc' = "upgraded" /\ raised' = "none"
                /\ variable' = variable
          /\ variable_revision_number \notin {12, 13} =>
                /\ pc' = "error" /\ raised' = "ValueError"
                /\ variable' = variable]_vars

\* An upgrade from revision 12 that moved three different values.
C22_Witness ==
    /\ pc = "upgraded"
    /\ variable_revision_number = 12
    /\ variable[16] # variable[17]
    /\ variable[17] # variable[18]
    /\ variable[18] = variable[19]
====
